---- MODULE Spec2Model ----
(***************************************************************************)
(* A model of src/main.py: the daily market job that loads the prediction  *)
(* ledger (market_record.csv), verifies the pending predictions of past    *)
(* days against realised daily highs and lows, computes the win rate,      *)
(* upserts today's prediction of every configured asset, saves the ledger  *)
(* and sends the report.                                                   *)
(*                                                                         *)
(* One run of main() is a sequence of steps (pc): load, the set-up of      *)
(* verify_history, one step per asset of its loop, the statistics, one     *)
(* step per asset of the prediction loop, the save and the send.  Runs     *)
(* follow one another; the date of a run is whatever the machine's clock   *)
(* says (datetime.date.today()), so it is not assumed to grow.             *)
(*                                                                         *)
(* Money is kept in whole units; implied volatility in hundredths          *)
(* (iv = 16 is 0.16), and the quotes are chosen so that price*iv/16 is a   *)
(* whole number, which makes the integer arithmetic exact.                 *)
(***************************************************************************)
EXTENDS Integers, Sequences, FiniteSets, TLC

\* ------------------------------------------------------------------ bounds
MaxDate == 2
MaxRuns == 2

\* The days a run can take place on, and the days a bar or a record can be of
\* (day 0 is a day before the first modelled run).
Dates == 1..MaxDate
Days == 0..MaxDate

\* ------------------------------------------------------- program constants
\* The first two entries of ASSETS (the source configures six of the same
\* shape; the loops treat every entry alike).
ASSETS ==
  << [name |-> "Gold", symbol |-> "GLD", verify_ticker |-> "GLD"],
     [name |-> "Oil",  symbol |-> "USO", verify_ticker |-> "USO"] >>

\* history(period="5d"): at most five daily bars
Period == 5
\* the Rule of 16
RuleOf16 == 16
\* iv is kept in hundredths
IvDen == 100

\* pandas' two nulls: None (a freshly appended row) and NaN (an empty CSV cell).
None == -2
NaN == -1
NoneStr == "None"
NaNStr == "NaN"

\* isna / notna on the result column (strings) and on a numeric column
isna(x) == x \in {NoneStr, NaNStr}
notna(x) == ~isna(x)
isnull(x) == x \in {None, NaN}

\* ------------------------------------------------------------ environment
\* What the market data provider can answer for a quote: price and ATM iv.
\* The first asset is quoted at two volatilities (a narrow and a wide band),
\* the others at one.
Quotes == { [price |-> 2000, iv |-> 16], [price |-> 2000, iv |-> 32] }

QuotesOf(symbol) ==
  IF symbol = "GLD" THEN Quotes ELSE { [price |-> 2000, iv |-> 16] }

\* The realised daily bar (High, Low) of each day, as the provider reports it:
\* above the narrow band only, below the narrow band only, inside both bands,
\* above both bands; later days repeat the four.
MarketBars ==
  << [High |-> 2030, Low |-> 1990],
     [High |-> 2010, Low |-> 1970],
     [High |-> 2010, Low |-> 1990],
     [High |-> 2050, Low |-> 1990] >>

Market(d) == MarketBars[(d % Len(MarketBars)) + 1]

\* The index of a fetched history: a run of consecutive days, at most Period
\* long.  Which days it holds is the provider's answer; the machine's clock
\* has no part in it.
Windows == { a..b : a \in Days, b \in Days } \ { {} }

Hists == { [d \in w |-> Market(d)] : w \in { v \in Windows : Cardinality(v) <= Period } }

\* A pending record as it is read from the file.
PendingRow(date, symbol, name) ==
  [date |-> date, symbol |-> symbol, name |-> name, price |-> 2000, iv |-> 16,
   low_pred |-> 1980, high_pred |-> 2020,
   actual_high |-> NaN, actual_low |-> NaN, result |-> NaNStr]

\* A record left in the ledger by an earlier configuration of ASSETS.
LegacyRow == PendingRow(0, "SLV", "Silver")

\* ------------------------------------------------------------- the ledger
\* to_csv writes both nulls as an empty cell, which read_csv reads as NaN;
\* strings and numbers are written and read back as they are.
CsvNum(x) == IF isnull(x) THEN NaN ELSE x
CsvStr(x) == IF isna(x) THEN NaNStr ELSE x

CsvRow(r) ==
  [date |-> r.date, symbol |-> r.symbol, name |-> r.name,
   price |-> CsvNum(r.price), iv |-> CsvNum(r.iv),
   low_pred |-> CsvNum(r.low_pred), high_pred |-> CsvNum(r.high_pred),
   actual_high |-> CsvNum(r.actual_high), actual_low |-> CsvNum(r.actual_low),
   result |-> CsvStr(r.result)]

to_csv(d) == [kind |-> "valid", rows |-> [k \in 1..Len(d) |-> CsvRow(d[k])]]

\* Lines 125-135: the DataFrame main() starts from, for each state of the file.
LoadRows(file) == IF file.kind \in {"valid", "no_result"} THEN file.rows ELSE << >>

LoadCols(file) == IF file.kind = "no_result" THEN "no_result" ELSE "full"

\* ------------------------------------------------------------ get_prediction
\* The provider's answer q is a quote, or << >> when the price or the option
\* chain cannot be had; the result is << >> (None) or a one-element sequence.
move(price, iv) == (price * iv) \div (IvDen * RuleOf16)

\* An estimator that keeps the lower bound from going below zero.
get_prediction_clamped(asset, q) ==
  IF q = << >> THEN << >>
  ELSE << [name |-> asset.name, symbol |-> asset.symbol,
           price |-> q[1].price, iv |-> q[1].iv,
           low |-> IF q[1].price < move(q[1].price, q[1].iv)
                   THEN 0 ELSE q[1].price - move(q[1].price, q[1].iv),
           high |-> q[1].price + move(q[1].price, q[1].iv)] >>

get_prediction(asset, q) ==
  IF q = << >> THEN << >>
  ELSE << [name |-> asset.name, symbol |-> asset.symbol,
           price |-> q[1].price, iv |-> q[1].iv,
           low |-> q[1].price - move(q[1].price, q[1].iv),
           high |-> q[1].price + move(q[1].price, q[1].iv)] >>

\* ------------------------------------------------------------ verify_history
\* Variant: the date is not looked at.
PendingMask_noToday(d, t) == { k \in 1..Len(d) : isna(d[k].result) }

\* Line 67: result is null and the date is not today's.
PendingMask(d, t) == { k \in 1..Len(d) : isna(d[k].result) /\ d[k].date # t }

\* The pending rows of every symbol at once.
AssetIndices_all(d, mask, symbol) == mask

\* Line 82: the pending rows of one asset.
AssetIndices(d, mask, symbol) == { k \in mask : d[k].symbol = symbol }

\* Line 102
is_win(act_high, act_low, pred_high, pred_low) ==
  (act_high <= pred_high) /\ (act_low >= pred_low)

\* A judgement that writes the result and not the bar.
Resolve_resultOnly(r, bar) ==
  [r EXCEPT !.result = IF is_win(bar.High, bar.Low, r.high_pred, r.low_pred)
                       THEN "WIN" ELSE "LOSS"]

\* Lines 94-106 for one row.  The first "WIN"/"LOSS" written into a result
\* column read as all-NaN widens the column (pandas before 3.0).
Resolve(r, bar) ==
  [r EXCEPT !.actual_high = bar.High,
            !.actual_low = bar.Low,
            !.result = IF is_win(bar.High, bar.Low, r.high_pred, r.low_pred)
                       THEN "WIN" ELSE "LOSS"]

\* Line 93: the rows of the asset whose date is in the fetched index.
Hit(d, idxs, hist) == { k \in idxs : d[k].date \in DOMAIN hist }

Max(S) == CHOOSE m \in S : \A n \in S : n <= m

\* Variant: a row whose date the index lacks is judged on the latest bar.
VerifyRows_nearest(d, idxs, hist) ==
  [k \in 1..Len(d) |->
     IF k \in idxs
     THEN Resolve(d[k], IF d[k].date \in DOMAIN hist THEN hist[d[k].date]
                        ELSE hist[Max(DOMAIN hist)])
     ELSE d[k]]

\* Variant: the loop over the asset's rows stops after the first row.
VerifyRows_first(d, idxs, hist) ==
  [k \in 1..Len(d) |->
     IF k \in Hit(d, idxs, hist) /\ \A j \in idxs : k <= j
     THEN Resolve(d[k], hist[d[k].date]) ELSE d[k]]

\* Lines 90-107 for one asset
VerifyRows(d, idxs, hist) ==
  [k \in 1..Len(d) |->
     IF k \in Hit(d, idxs, hist) THEN Resolve(d[k], hist[d[k].date]) ELSE d[k]]

\* ------------------------------------------------------------------- stats
\* Lines 141-144.  win_rate is kept as the fraction num/den.
Completed(d) == { k \in 1..Len(d) : notna(d[k].result) }

Wins(d) == Cardinality({ k \in Completed(d) : d[k].result = "WIN" })

Total(d) == Cardinality(Completed(d))

\* Variant: the division is not guarded.
WinRate_noguard(w, t) == [num |-> w, den |-> t]

WinRate(w, t) == IF t > 0 THEN [num |-> w, den |-> t] ELSE [num |-> 0, den |-> 1]

\* ------------------------------------------------------------------ upsert
\* Variant: the row is located by the date alone.
ExistingIdx_dateOnly(d, t, symbol) == { k \in 1..Len(d) : d[k].date = t }

\* Lines 164-165
ExistingIdx(d, t, symbol) ==
  { k \in 1..Len(d) : d[k].date = t /\ d[k].symbol = symbol }

Min(S) == CHOOSE m \in S : \A n \in S : m <= n

\* Variant: the update rewrites the whole row as a new one.
UpdateRow_reset(r, data) ==
  [r EXCEPT !.price = data.price, !.iv = data.iv,
            !.low_pred = data.low, !.high_pred = data.high,
            !.actual_high = None, !.actual_low = None, !.result = NoneStr]

\* Lines 171-174
UpdateRow(r, data) ==
  [r EXCEPT !.price = data.price, !.iv = data.iv,
            !.low_pred = data.low, !.high_pred = data.high]

\* A new record that starts out as a LOSS.
NewRow_judged(t, data) ==
  [date |-> t, symbol |-> data.symbol, name |-> data.name,
   price |-> data.price, iv |-> data.iv,
   low_pred |-> data.low, high_pred |-> data.high,
   actual_high |-> None, actual_low |-> None, result |-> "LOSS"]

\* Lines 177-186
NewRow(t, data) ==
  [date |-> t, symbol |-> data.symbol, name |-> data.name,
   price |-> data.price, iv |-> data.iv,
   low_pred |-> data.low, high_pred |-> data.high,
   actual_high |-> None, actual_low |-> None, result |-> NoneStr]

\* Variant: every prediction is appended.
Upsert_append(d, t, data) == Append(d, NewRow(t, data))

\* Variant: the new row replaces the DataFrame instead of being added to it.
Upsert_replace(d, t, data) ==
  IF ExistingIdx(d, t, data.symbol) # {}
  THEN [d EXCEPT ![Min(ExistingIdx(d, t, data.symbol))] = UpdateRow(@, data)]
  ELSE << NewRow(t, data) >>

\* Lines 164-188
Upsert(d, t, data) ==
  IF ExistingIdx(d, t, data.symbol) # {}
  THEN [d EXCEPT ![Min(ExistingIdx(d, t, data.symbol))] = UpdateRow(@, data)]
  ELSE Append(d, NewRow(t, data))

VARIABLES
  store,          \* the file CSV_FILE: [kind, rows]
  pc,             \* position of the run in main()
  today,          \* today_str of the run (lines 64 and 151 read the same day)
  df,             \* the DataFrame of the run: a sequence of rows
  dfcols,         \* whether df has the columns verify_history reads
  i,              \* position of the asset loop (verification, then prediction)
  pending_mask,   \* row indices selected at line 67
  updates_count,  \* verify_history's counter
  report,         \* wins, total, win_rate, verify_updates of history_report
  today_lines,    \* one entry per processed asset
  run_type,       \* "morning" or "evening"
  data,           \* get_prediction's answer for the asset just processed
  runs,           \* number of runs started
  status,         \* how the last finished run ended
  df0,            \* history: df as loaded by this run
  fetched,        \* history: << position in ASSETS, whether its fetch answered >>
  seen            \* history: pending or today's rows whose date the answer held

vars == << store, pc, today, df, dfcols, i, pending_mask, updates_count, report,
           today_lines, run_type, data, runs, status, df0, fetched, seen >>

\* ------------------------------------------------------------ initial state
NoReport == [wins |-> 0, total |-> 0, win_rate |-> [num |-> 0, den |-> 1],
             verify_updates |-> 0]

\* The file before the first run: absent, or a ledger in use, with two
\* predictions still pending (their verification failed so far) and a
\* record of an asset that is no longer configured.
InitStores ==
  { [kind |-> "missing", rows |-> << >>],
    [kind |-> "valid",
     rows |-> << LegacyRow, PendingRow(0, "GLD", "Gold"), PendingRow(1, "GLD", "Gold") >>] }

Init ==
  /\ store \in InitStores
  /\ pc = "idle"
  /\ today = 0
  /\ df = << >>
  /\ dfcols = "full"
  /\ i = 0
  /\ pending_mask = {}
  /\ updates_count = 0
  /\ report = NoReport
  /\ today_lines = << >>
  /\ run_type = "morning"
  /\ data = << >>
  /\ runs = 0
  /\ status = "none"
  /\ df0 = << >>
  /\ fetched = {}
  /\ seen = {}

\* The locals of main() between two runs.
EndRun(outcome) ==
  /\ pc' = "idle"
  /\ status' = outcome
  /\ today' = 0
  /\ df' = << >>
  /\ dfcols' = "full"
  /\ i' = 0
  /\ pending_mask' = {}
  /\ updates_count' = 0
  /\ report' = NoReport
  /\ today_lines' = << >>
  /\ run_type' = "morning"
  /\ data' = << >>
  /\ df0' = << >>
  /\ fetched' = {}
  /\ seen' = {}

\* ----------------------------------------------------------------- actions
InRun == pc # "idle"

\* Lines 121-135 and 64: a run starts on the date t and loads the ledger.
Load ==
  /\ pc = "idle"
  /\ runs < MaxRuns
  /\ \E t \in Dates : today' = t
  /\ runs' = runs + 1
  /\ df' = LoadRows(store)
  /\ dfcols' = LoadCols(store)
  /\ df0' = LoadRows(store)
  /\ pc' = "verify_init"
  /\ status' = "running"
  /\ UNCHANGED << store, i, pending_mask, updates_count, report, today_lines,
                  run_type, data, fetched, seen >>

\* Lines 63-71: the pending rows; nothing to verify returns 0 at once.
VerifyInit ==
  /\ pc = "verify_init"
  /\ dfcols = "full"
  /\ pending_mask' = PendingMask(df, today)
  /\ updates_count' = 0
  /\ IF PendingMask(df, today) = {}
     THEN pc' = "stats" /\ i' = 0
     ELSE pc' = "verify" /\ i' = 1
  /\ UNCHANGED << store, today, df, dfcols, report, today_lines, run_type, data,
                  runs, status, df0, fetched, seen >>

\* Line 67 on a DataFrame without the result column: KeyError, out of main().
VerifyKeyError ==
  /\ pc = "verify_init"
  /\ dfcols # "full"
  /\ EndRun("key_error")
  /\ UNCHANGED << store, runs >>

NextAsset ==
  IF i = Len(ASSETS) THEN pc' = "stats" /\ i' = 0
                     ELSE pc' = "verify" /\ i' = i + 1

\* Lines 76-84: an asset without pending rows is passed over.
VerifySkip ==
  /\ pc = "verify"
  /\ AssetIndices(df, pending_mask, ASSETS[i].symbol) = {}
  /\ NextAsset
  /\ UNCHANGED << store, today, df, dfcols, pending_mask, updates_count, report,
                  today_lines, run_type, data, runs, status, df0, fetched, seen >>

\* A failing fetch that ends the whole verification.
VerifyFetchFail_abort ==
  /\ pc = "verify"
  /\ AssetIndices(df, pending_mask, ASSETS[i].symbol) # {}
  /\ fetched' = fetched \cup { << i, FALSE >> }
  /\ pc' = "stats"
  /\ i' = 0
  /\ UNCHANGED << store, today, df, dfcols, pending_mask, updates_count, report,
                  today_lines, run_type, data, runs, status, df0, seen >>

\* Lines 85-88 and 108-109: the fetch raises; the asset's rows stay as they
\* are and the loop goes on.
VerifyFetchFail ==
  /\ pc = "verify"
  /\ AssetIndices(df, pending_mask, ASSETS[i].symbol) # {}
  /\ fetched' = fetched \cup { << i, FALSE >> }
  /\ NextAsset
  /\ UNCHANGED << store, today, df, dfcols, pending_mask, updates_count, report,
                  today_lines, run_type, data, runs, status, df0, seen >>

\* Lines 85-107: the fetch answers hist; every pending row of the asset whose
\* date is in it is judged.
VerifyAsset ==
  /\ pc = "verify"
  /\ AssetIndices(df, pending_mask, ASSETS[i].symbol) # {}
  /\ \E hist \in Hists :
       LET idxs == AssetIndices(df, pending_mask, ASSETS[i].symbol)
           hit == Hit(df, idxs, hist)
       IN /\ df' = VerifyRows(df, idxs, hist)
          /\ updates_count' = updates_count + Cardinality(hit)
          /\ fetched' = fetched \cup { << i, TRUE >> }
          /\ seen' = seen \cup
               { k \in 1..Len(df) :
                   /\ df[k].symbol = ASSETS[i].symbol
                   /\ df[k].date \in DOMAIN hist
                   /\ k \in idxs \/ df[k].date = today }
  /\ NextAsset
  /\ UNCHANGED << store, today, dfcols, pending_mask, report, today_lines,
                  run_type, data, runs, status, df0 >>

\* Lines 111 and 138-148: verify_history returns its counter (its locals are
\* gone with it) and the statistics are taken.
Stats ==
  /\ pc = "stats"
  /\ report' = [wins |-> Wins(df), total |-> Total(df),
                win_rate |-> WinRate(Wins(df), Total(df)),
                verify_updates |-> updates_count]
  /\ pending_mask' = {}
  /\ updates_count' = 0
  /\ fetched' = {}
  /\ seen' = {}
  /\ today_lines' = << >>
  /\ run_type' = "morning"
  /\ i' = 1
  /\ pc' = "predict"
  /\ UNCHANGED << store, today, df, dfcols, data, runs, status, df0 >>

\* An asset loop left after its first asset.
NextPrediction_early == pc' = "save" /\ i' = 0

NextPrediction ==
  IF i = Len(ASSETS) THEN pc' = "save" /\ i' = 0
                     ELSE pc' = "predict" /\ i' = i + 1

\* A missing prediction recorded as a prediction of zeros.
PredictNone_default ==
  /\ pc = "predict"
  /\ get_prediction(ASSETS[i], << >>) = << >>
  /\ data' = get_prediction(ASSETS[i], << >>)
  /\ df' = Upsert(df, today, [name |-> ASSETS[i].name, symbol |-> ASSETS[i].symbol,
                              price |-> 0, iv |-> 0, low |-> 0, high |-> 0])
  /\ today_lines' = Append(today_lines, [symbol |-> ASSETS[i].symbol, ok |-> FALSE])
  /\ NextPrediction
  /\ UNCHANGED << store, today, dfcols, pending_mask, updates_count, report,
                  run_type, runs, status, df0, fetched, seen >>

\* Lines 157-160: no prediction, a failure line, the ledger is not touched.
PredictNone ==
  /\ pc = "predict"
  /\ get_prediction(ASSETS[i], << >>) = << >>
  /\ data' = get_prediction(ASSETS[i], << >>)
  /\ today_lines' = Append(today_lines, [symbol |-> ASSETS[i].symbol, ok |-> FALSE])
  /\ NextPrediction
  /\ UNCHANGED << store, today, df, dfcols, pending_mask, updates_count, report,
                  run_type, runs, status, df0, fetched, seen >>

\* Lines 157-192: a prediction is upserted for (today, symbol).
Predict ==
  /\ pc = "predict"
  /\ \E q \in QuotesOf(ASSETS[i].symbol) :
       LET d == get_prediction(ASSETS[i], << q >>)
       IN /\ d # << >>
          /\ data' = d
          /\ df' = Upsert(df, today, d[1])
          /\ run_type' = IF ExistingIdx(df, today, d[1].symbol) # {}
                         THEN "evening" ELSE run_type
          /\ today_lines' = Append(today_lines, [symbol |-> d[1].symbol, ok |-> TRUE])
  /\ NextPrediction
  /\ UNCHANGED << store, today, dfcols, pending_mask, updates_count, report,
                  runs, status, df0, fetched, seen >>

\* Line 195: the ledger is written.
Save ==
  /\ pc = "save"
  /\ store' = to_csv(df)
  /\ pc' = "send"
  /\ UNCHANGED << today, df, dfcols, i, pending_mask, updates_count, report,
                  today_lines, run_type, data, runs, status, df0, fetched, seen >>

\* A failed write that is caught and passed over.
SaveFail_swallow ==
  /\ pc = "save"
  /\ pc' = "send"
  /\ UNCHANGED << store, today, df, dfcols, i, pending_mask, updates_count, report,
                  today_lines, run_type, data, runs, status, df0, fetched, seen >>

\* Line 195 raises: the file is as it was, or cut short by the failed write.
SaveFail ==
  /\ pc = "save"
  /\ \/ UNCHANGED store
     \/ store' = [kind |-> "unreadable", rows |-> << >>]
  /\ EndRun("save_failed")
  /\ UNCHANGED runs

\* Lines 197-206: the report is sent (or not, without token), the run is done.
Send ==
  /\ pc = "send"
  /\ EndRun("ok")
  /\ UNCHANGED << store, runs >>

\* Line 117 raises (no handler in send_telegram or main).
SendRaise ==
  /\ pc = "send"
  /\ EndRun("send_failed")
  /\ UNCHANGED << store, runs >>

\* The process is killed in the middle of a run: nothing of the run is left
\* but what it has written to the file.
Kill ==
  /\ InRun
  /\ EndRun(IF df # df0 THEN "killed_dirty" ELSE "killed")
  /\ UNCHANGED << store, runs >>

Next ==
  \/ Load
  \/ VerifyInit
  \/ VerifySkip
  \/ VerifyFetchFail
  \/ VerifyAsset
  \/ Stats
  \/ PredictNone
  \/ Predict
  \/ Save
  \/ SaveFail
  \/ Send
  \/ SendRaise
  \/ Kill

Spec == Init /\ [][Next]_vars

\* ------------------------------------------------ a file main() cannot use
\* A row of a file written without the result column.
OldRow ==
  [date |-> 0, symbol |-> "GLD", name |-> "Gold", price |-> 2000, iv |-> 16,
   low_pred |-> 1980, high_pred |-> 2020]

\* The file is absent, is not a CSV pandas can read, lacks the symbol column,
\* or has the symbol column and lacks the result column.
BrokenStores ==
  { [kind |-> "missing", rows |-> << >>],
    [kind |-> "unreadable", rows |-> << >>],
    [kind |-> "no_symbol", rows |-> << >>],
    [kind |-> "no_result", rows |-> << OldRow >>] }

InitStore ==
  /\ store \in BrokenStores
  /\ pc = "idle"
  /\ today = 0
  /\ df = << >>
  /\ dfcols = "full"
  /\ i = 0
  /\ pending_mask = {}
  /\ updates_count = 0
  /\ report = NoReport
  /\ today_lines = << >>
  /\ run_type = "morning"
  /\ data = << >>
  /\ runs = 0
  /\ status = "none"
  /\ df0 = << >>
  /\ fetched = {}
  /\ seen = {}

NextStore == Next \/ VerifyKeyError

SpecStore == InitStore /\ [][NextStore]_vars

\* -------------------------------------------------- the estimator by itself
\* get_prediction over a grid of quotes: prices in steps of 400 and implied
\* volatilities in steps of 4 percent, on which price * iv / 16 is a whole
\* number, and one volatility above 1600 percent, where the band is wider
\* than the price.
MaxPriceUnits == 5

MaxIvUnits == 10

EstPrices == { 400 * a : a \in 1..MaxPriceUnits }

EstIvs == { 4 * b : b \in 0..MaxIvUnits } \cup { 2000 }

InitEst == Init /\ store.kind = "missing"

\* Lines 28-59 called once with some asset and some answer of the quote source.
Estimate ==
  /\ pc = "idle"
  /\ \E a \in 1..Len(ASSETS) :
       \/ data' = get_prediction(ASSETS[a], << >>)
       \/ \E price \in EstPrices, iv \in EstIvs :
            data' = get_prediction(ASSETS[a], << [price |-> price, iv |-> iv] >>)
  /\ UNCHANGED << store, pc, today, df, dfcols, i, pending_mask, updates_count,
                  report, today_lines, run_type, runs, status, df0, fetched, seen >>

NextEst == Estimate

SpecEst == InitEst /\ [][NextEst]_vars

\* ------------------------------------------------------------ vocabulary
Rows(d) == { d[k] : k \in 1..Len(d) }

Key(r) == << r.date, r.symbol >>

Keys(d) == { Key(r) : r \in Rows(d) }

Unique(d) == \A j, k \in 1..Len(d) : Key(d[j]) = Key(d[k]) => j = k

Resolved(r) == r.result \in {"WIN", "LOSS"}

SameOutcome(r, q) ==
  /\ r.result = q.result
  /\ r.actual_high = q.actual_high
  /\ r.actual_low = q.actual_low

\* Pending rows of this run whose asset's fetch answered, with and without
\* their date in the answer.
Answered(k) ==
  \E a \in 1..Len(ASSETS) :
    << a, TRUE >> \in fetched /\ ASSETS[a].symbol = df0[k].symbol

Covered == { k \in pending_mask : Answered(k) /\ k \in seen }

Missed == { k \in pending_mask : Answered(k) /\ k \notin seen }

\* Rows this run has resolved so far.
ResolvedNow == { k \in 1..Len(df0) : isna(df0[k].result) /\ notna(df[k].result) }

\* ------------------------------------------------------------------ claims

\* C1: starting from a duplicate-free ledger, after any runs on any dates
\* (several on one date included) the DataFrame of a run and the saved file
\* hold at most one record per (date, symbol).
C1_OneRecordPerKey == Unique(df) /\ Unique(store.rows)

\* A second run on a date has re-estimated the record an earlier run made.
C1_Witness ==
  /\ pc = "send"
  /\ \E k \in 1..Len(df0) :
       /\ df0[k].date = today
       /\ df0[k].symbol = "GLD"
       /\ isna(df0[k].result)
       /\ df[k].iv # df0[k].iv

\* C2: every resolved record, in memory and in the file, has result WIN
\* exactly when its actual_high <= its stored high_pred and its actual_low >=
\* its stored low_pred, and LOSS otherwise.
C2_ResultMatchesStoredBand ==
  \A r \in Rows(df) \cup Rows(store.rows) :
    notna(r.result) =>
      /\ Resolved(r)
      /\ (r.result = "WIN") <=>
           is_win(r.actual_high, r.actual_low, r.high_pred, r.low_pred)

\* C3: once a record is WIN or LOSS, no step changes its result, actual_high
\* or actual_low: not in the DataFrame of a run, not from the file to the
\* DataFrame at load, and not in the file when it is rewritten.
C3_ResolvedNeverChanges ==
  [][ /\ (InRun /\ pc' # "idle") =>
           \A k \in 1..Len(df) :
             notna(df[k].result) =>
               k <= Len(df') /\ Key(df'[k]) = Key(df[k]) /\ SameOutcome(df'[k], df[k])
      /\ (pc = "idle" /\ pc' # "idle" /\ store.kind = "valid") =>
           \A r \in Rows(store.rows) :
             notna(r.result) =>
               \E q \in Rows(df') : Key(q) = Key(r) /\ SameOutcome(q, r)
      /\ \A r \in Rows(store.rows) : \A q \in Rows(store'.rows) :
           (notna(r.result) /\ Key(q) = Key(r)) => SameOutcome(q, r)
    ]_vars

\* A run is over that re-estimated a record of today that was resolved when
\* it was loaded.
C3_Witness ==
  /\ pc = "send"
  /\ \E k \in 1..Len(df0) :
       /\ notna(df0[k].result)
       /\ df0[k].date = today
       /\ df[k].iv # df0[k].iv

\* C4: a record dated today is not resolved by the run: whatever its result
\* and whatever the fetched history holds, its result, actual_high and
\* actual_low stay as loaded throughout the run.
C4_TodayNotResolved ==
  InRun =>
    \A k \in 1..Len(df0) :
      df0[k].date = today => SameOutcome(df[k], df0[k])

\* A verification is over whose fetched history held today's date for a
\* record of today that is unresolved.
C4_Witness ==
  /\ pc = "stats"
  /\ \E k \in seen : k <= Len(df0) /\ df0[k].date = today /\ isna(df0[k].result)

\* C5: a run resolves only records dated strictly before its current date; a
\* pending record dated later than the current date stays unresolved.
C5_OnlyPastResolved ==
  InRun => \A k \in ResolvedNow : df0[k].date < today

\* C6: the step that processes one asset either leaves the ledger alone,
\* or overwrites price, iv, low_pred and high_pred of the one record of
\* (today, symbol) with one estimate and nothing else, or, when there is no
\* such record, appends one record of (today, symbol) with null actual_high,
\* actual_low and result.
C6_UpsertFrame ==
  [][ (pc = "predict" /\ pc' # "idle") =>
        LET ex == { k \in 1..Len(df) :
                      df[k].date = today /\ df[k].symbol = ASSETS[i].symbol }
        IN \/ df' = df
           \/ /\ ex # {}
              /\ Len(df') = Len(df)
              /\ \A k \in 1..Len(df) :
                   IF k \in ex
                   THEN \E q \in Quotes :
                          df'[k] = [df[k] EXCEPT
                                      !.price = q.price, !.iv = q.iv,
                                      !.low_pred = get_prediction(ASSETS[i], << q >>)[1].low,
                                      !.high_pred = get_prediction(ASSETS[i], << q >>)[1].high]
                   ELSE df'[k] = df[k]
           \/ /\ ex = {}
              /\ Len(df') = Len(df) + 1
              /\ SubSeq(df', 1, Len(df)) = df
              /\ Key(df'[Len(df')]) = << today, ASSETS[i].symbol >>
              /\ isnull(df'[Len(df')].actual_high)
              /\ isnull(df'[Len(df')].actual_low)
              /\ isna(df'[Len(df')].result)
    ]_vars

\* In one run a record of today was re-estimated and another was appended.
C6_Witness ==
  /\ pc = "save"
  /\ run_type = "evening"
  /\ Len(df) > Len(df0)
  /\ \E k \in 1..Len(df0) : df0[k].date = today /\ df[k] # df0[k]

\* No step after verify_history has returned writes a result or an actual
\* value of a row.
OutcomesKept ==
  \A k \in 1..Len(df) : k <= Len(df') /\ SameOutcome(df'[k], df[k])

\* C7: a pending record whose date the fetched history of its asset lacks is
\* unresolved when verify_history returns, with null actual_high and
\* actual_low, the update counter counts exactly the records the run
\* resolved, and the rest of the run leaves every row's outcome as it is.
C7_MissedStaysPending ==
  /\ [](pc \in {"verify", "stats"} =>
          /\ \A k \in Missed :
               /\ isna(df[k].result)
               /\ isnull(df[k].actual_high)
               /\ isnull(df[k].actual_low)
          /\ updates_count = Cardinality(ResolvedNow))
  /\ [](pc \in {"predict", "save", "send"} =>
          report.verify_updates = Cardinality(ResolvedNow))
  /\ [][ ((pc \in {"stats", "predict", "save"}) /\ pc' # "idle") => OutcomesKept ]_vars

\* A verification is over in which one record was missed by the history
\* and another was resolved.
C7_Witness ==
  /\ pc = "stats"
  /\ Missed # {}
  /\ updates_count > 0

\* C8: in a run later than its date, every pending record of a configured
\* asset whose fetch answered with the record's date is resolved when
\* verify_history returns: WIN or LOSS, with actual_high and actual_low of
\* that date's bar; the rest of the run keeps it so.
C8_CoveredIsResolved ==
  /\ [](pc \in {"verify", "stats"} =>
          \A k \in Covered :
            df0[k].date < today =>
              /\ Resolved(df[k])
              /\ df[k].actual_high = Market(df0[k].date).High
              /\ df[k].actual_low = Market(df0[k].date).Low)
  /\ [][ ((pc \in {"stats", "predict", "save"}) /\ pc' # "idle") =>
          \A k \in 1..Len(df) :
            Resolved(df[k]) => k <= Len(df') /\ SameOutcome(df'[k], df[k]) ]_vars

\* A verification is over that resolved two pending records of one asset.
C8_Witness ==
  /\ pc = "stats"
  /\ \E j, k \in Covered :
       /\ j < k
       /\ df0[j].symbol = df0[k].symbol
       /\ df0[j].date < today
       /\ df0[k].date < today

\* C9: the file written at the end of a run holds every (date, symbol) the
\* run loaded.
C9_NoRecordRemoved == pc = "send" => Keys(df0) \subseteq Keys(store.rows)

\* A run that loaded records has saved a file with more records.
C9_Witness ==
  /\ pc = "send"
  /\ Len(df0) > 0
  /\ Len(store.rows) > Len(df0)

\* C10: the reported wins is the number of WIN records, total the number of
\* records with a result; win_rate is 0 when total = 0 and wins/total
\* otherwise, its denominator is never 0, and 0 <= wins <= total.
C10_Stats ==
  /\ report.win_rate.den # 0
  /\ 0 <= report.wins /\ report.wins <= report.total
  /\ report.total = 0 => report.win_rate.num = 0
  /\ report.total > 0 => report.win_rate = [num |-> report.wins, den |-> report.total]
  /\ (pc = "predict" /\ i = 1) =>
       /\ report.wins = Cardinality({ k \in 1..Len(df) : df[k].result = "WIN" })
       /\ report.total =
            Cardinality({ k \in 1..Len(df) : df[k].result \notin {NoneStr, NaNStr} })

\* The statistics were taken of a ledger with a WIN and a LOSS.
C10_Witness ==
  /\ pc = "predict"
  /\ i = 1
  /\ 0 < report.wins
  /\ report.wins < report.total

\* C11: for a price above 0 and an implied volatility of 0 or more,
\* get_prediction answers low = price - price * iv / 16 and high = price +
\* price * iv / 16 exactly, neither clamped nor rounded: low <= price <= high,
\* price - low = high - price, a volatility of 0 gives low = high = price, and
\* price 2000 with volatility 0.16 gives 1980 and 2020.
C11_Band ==
  data # << >> =>
    LET r == data[1]
    IN (r.price > 0 /\ r.iv >= 0) =>
         /\ (r.price - r.low) * (IvDen * RuleOf16) = r.price * r.iv
         /\ (r.high - r.price) * (IvDen * RuleOf16) = r.price * r.iv
         /\ r.low <= r.price /\ r.price <= r.high
         /\ r.iv = 0 => (r.low = r.price /\ r.high = r.price)
         /\ (r.price = 2000 /\ r.iv = 16) => (r.low = 1980 /\ r.high = 2020)

\* An estimate whose band reaches below zero.
C11_Witness ==
  /\ data # << >>
  /\ data[1].price > 0
  /\ data[1].low < 0
  /\ data[1].high = 2 * data[1].price - data[1].low

\* C12: the file is written at one point only, the save after verification
\* and after every configured asset was processed; up to that point the file
\* holds what the run loaded, so a run killed or failing before the write
\* leaves the file as it was when the run started.
C12_WrittenOnlyAtSave ==
  /\ []((pc \in {"verify_init", "verify", "stats", "predict", "save"}) =>
          LoadRows(store) = df0)
  /\ [][ store' # store =>
           /\ pc = "save"
           /\ Len(today_lines) = Len(ASSETS)
           /\ pending_mask = {} /\ updates_count = 0 ]_vars
  /\ [][ (InRun /\ pc # "save") => store' = store ]_vars

\* A run was killed after it had changed its DataFrame, with a ledger on file.
C12_Witness ==
  /\ status = "killed_dirty"
  /\ store.kind = "valid"
  /\ Len(store.rows) > 0

\* C13: a file that is absent, unreadable or without one of the fixed columns
\* is taken as an empty ledger and the run goes on to its end: no run fails
\* on what the file holds.
C13_StoreNeverFatal ==
  /\ status # "key_error"
  /\ (pc \in {"stats", "predict", "save"} /\ store.kind # "valid") => df0 = << >>

\* C14: the send is attempted with the ledger already on file, and whether
\* or not the report is delivered, the step of the send leaves the file as it
\* is and the run ends as completed.
C14_SendNeverAborts ==
  /\ [](pc = "send" => store = to_csv(df))
  /\ [][ (pc = "send" /\ status' \notin {"killed", "killed_dirty"}) =>
           (store' = store /\ status' = "ok") ]_vars

\* C15: a save that does not put the ledger on file ends the run there, as
\* failed, without the send and without the completion; a step of the
\* verification loop or of the estimation loop, failing or not, never ends
\* the run.
C15_OnlySaveFatal ==
  /\ [][ (pc = "save" /\ store' # to_csv(df)) =>
           (pc' = "idle" /\ status' \in {"save_failed", "killed", "killed_dirty"}) ]_vars
  /\ [][ status' = "save_failed" => (pc = "save" /\ pc' = "idle") ]_vars
  /\ [][ ((pc \in {"verify", "predict"}) /\ status' \notin {"killed", "killed_dirty"}) =>
           (pc' # "idle" /\ status' = "running") ]_vars

\* A run ended in a failed save that cut the file short.
C15_Witness ==
  /\ status = "save_failed"
  /\ store.kind = "unreadable"

\* Positions in ASSETS of the assets with pending rows in this verification,
\* and whether the loop is past position a.
PendingAssets ==
  { a \in 1..Len(ASSETS) : AssetIndices(df0, pending_mask, ASSETS[a].symbol) # {} }

Passed(a) == pc = "stats" \/ (pc = "verify" /\ a < i)

\* C16: in verify_history every asset with pending rows gets its fetch,
\* whatever happened to the assets before it: a failed fetch leaves that
\* asset's rows as loaded, an answered fetch resolves every pending row of
\* its asset whose date it holds, and the counter is the number of rows the
\* verification resolved.
C16_FailuresAreIsolated ==
  (pc \in {"verify", "stats"}) =>
    /\ \A a \in PendingAssets :
         Passed(a) =>
           /\ \E ok \in BOOLEAN : << a, ok >> \in fetched
           /\ \A k \in AssetIndices(df0, pending_mask, ASSETS[a].symbol) :
                /\ (<< a, FALSE >> \in fetched) => df[k] = df0[k]
                /\ (<< a, TRUE >> \in fetched /\ k \in seen) => Resolved(df[k])
    /\ updates_count =
         Cardinality({ k \in 1..Len(df) : Resolved(df[k]) /\ ~Resolved(df0[k]) })

\* The fetch of the first asset failed and the fetch of the second one
\* resolved a record.
C16_Witness ==
  /\ pc = "stats"
  /\ << 1, FALSE >> \in fetched
  /\ << 2, TRUE >> \in fetched
  /\ \E k \in pending_mask : df0[k].symbol = ASSETS[2].symbol /\ Resolved(df[k])
  /\ \E k \in pending_mask : df0[k].symbol = ASSETS[1].symbol /\ df[k] = df0[k]

\* C17: when get_prediction answers None for an asset, the step leaves every
\* row of the DataFrame as it is and adds one failure line for that asset,
\* and the loop goes on; when the loop is over there is one line per
\* configured asset, in order, every asset with a success line has its
\* record of today, and an asset with a failure line has no row the run
\* created or re-estimated.
C17_NoPredictionNoRecord ==
  /\ [][ (pc = "predict" /\ pc' # "idle" /\ data' = << >>) =>
           /\ df' = df
           /\ today_lines' =
                Append(today_lines, [symbol |-> ASSETS[i].symbol, ok |-> FALSE])
           /\ pc' = IF i = Len(ASSETS) THEN "save" ELSE "predict" ]_vars
  /\ []((pc \in {"save", "send"}) =>
          /\ Len(today_lines) = Len(ASSETS)
          /\ \A a \in 1..Len(ASSETS) :
               /\ today_lines[a].symbol = ASSETS[a].symbol
               /\ today_lines[a].ok =>
                    \E r \in Rows(df) :
                      Key(r) = << today, ASSETS[a].symbol >> /\ r.price > 0
               /\ ~today_lines[a].ok =>
                    \A k \in 1..Len(df) :
                      df[k].symbol = ASSETS[a].symbol =>
                        /\ k <= Len(df0)
                        /\ Key(df[k]) = Key(df0[k])
                        /\ df[k].price = df0[k].price /\ df[k].iv = df0[k].iv
                        /\ df[k].low_pred = df0[k].low_pred
                        /\ df[k].high_pred = df0[k].high_pred)

\* The asset loop is over: the first asset, which has a record of today, got
\* no prediction, and the second one got one.
C17_Witness ==
  /\ pc = "save"
  /\ ~today_lines[1].ok
  /\ today_lines[2].ok
  /\ \E r \in Rows(df0) : Key(r) = << today, ASSETS[1].symbol >>

\* C18: every record, in the DataFrame of a run and in the file, is either
\* unresolved with null result, actual_high and actual_low, or resolved with
\* result WIN or LOSS and both actual values set.
C18_RecordShape ==
  \A r \in Rows(df) \cup Rows(store.rows) :
    \/ isna(r.result) /\ isnull(r.actual_high) /\ isnull(r.actual_low)
    \/ Resolved(r) /\ ~isnull(r.actual_high) /\ ~isnull(r.actual_low)

\* A run that resolved a record has saved a ledger with resolved and
\* unresolved records, one of them appended by this run.
C18_Witness ==
  /\ pc = "send"
  /\ ResolvedNow # {}
  /\ Len(df) > Len(df0)
  /\ \E r, q \in Rows(store.rows) : Resolved(r) /\ isna(q.result)

\* C19: the wins and total of the report, taken after verification and
\* before the upserts, are the wins and total of the ledger the run saves:
\* no step of the asset loop changes the number of WIN records or of
\* resolved records.
C19_ReportMatchesSaved ==
  /\ [](pc = "send" =>
          /\ report.wins =
               Cardinality({ k \in 1..Len(store.rows) : store.rows[k].result = "WIN" })
          /\ report.total =
               Cardinality({ k \in 1..Len(store.rows) : Resolved(store.rows[k]) }))
  /\ [][ (pc = "predict" /\ pc' # "idle") =>
           /\ Cardinality({ k \in 1..Len(df') : df'[k].result = "WIN" })
                = Cardinality({ k \in 1..Len(df) : df[k].result = "WIN" })
           /\ Cardinality({ k \in 1..Len(df') : Resolved(df'[k]) })
                = Cardinality({ k \in 1..Len(df) : Resolved(df[k]) }) ]_vars

\* A ledger with a WIN was saved by a run that re-estimated a record and
\* appended another.
C19_Witness ==
  /\ pc = "send"
  /\ report.wins > 0
  /\ run_type = "evening"
  /\ Len(store.rows) > Len(df0)

\* A pending record of a symbol that no configured asset has.
Foreign(r) ==
  /\ isna(r.result)
  /\ \A a \in 1..Len(ASSETS) : r.symbol # ASSETS[a].symbol

\* C20: a pending record whose symbol is not the symbol of a configured
\* asset is loaded by every run, left as it is by every step of the run and
\* written into every ledger saved, so it stays unresolved; the wins and
\* total of the report count records of configured assets only.
C20_ForeignUntouched ==
  /\ [][ (pc = "idle" /\ pc' # "idle" /\ store.kind = "valid") =>
           \A k \in 1..Len(store.rows) :
             Foreign(store.rows[k]) => (k <= Len(df') /\ df'[k] = store.rows[k]) ]_vars
  /\ [][ (InRun /\ pc' # "idle") =>
           \A k \in 1..Len(df) :
             Foreign(df[k]) => (k <= Len(df') /\ df'[k] = df[k]) ]_vars
  /\ [][ (pc = "save" /\ store'.kind = "valid") =>
           \A k \in 1..Len(df) :
             Foreign(df[k]) => (k <= Len(store'.rows) /\ store'.rows[k] = df[k]) ]_vars
  /\ []((pc \in {"predict", "save", "send"}) =>
          /\ report.total =
               Cardinality({ k \in 1..Len(df) : Resolved(df[k]) /\ ~Foreign(df[k]) })
          /\ report.wins =
               Cardinality({ k \in 1..Len(df) : df[k].result = "WIN" /\ ~Foreign(df[k]) }))

\* A run that resolved a record of day 0 has saved the ledger, in which the
\* record of day 0 of the symbol no longer configured is still pending.
C20_Witness ==
  /\ pc = "send"
  /\ \E k \in ResolvedNow : df0[k].date = LegacyRow.date
  /\ \E r \in Rows(store.rows) : Foreign(r) /\ r = LegacyRow

====
